---- MODULE Spec2Model ----
(***************************************************************************)
(* Model of the cubemap face selection / inpainting handoff workflow       *)
(* (assets/Scripts/InpaintingManager.cs) and of the web application's      *)
(* push-channel image ingestor (Home component, unity_image_received).     *)
(*                                                                         *)
(* The specifications share the variables:                                 *)
(*   Spec          the InpaintingManager state machine                     *)
(*   SpecLive      Spec with the coroutine scheduler's fairness            *)
(*   SpecClassify  the pure face classifier on a bounded grid of vectors   *)
(*   SpecHandoff   the request built by SendFaceToIOPaint                  *)
(*   SpecMesh      the grid built by UpdateHighlightMesh                   *)
(*   SpecIngest    the socket handler of the web application               *)
(*   SpecSession   the web application's socket, bootstrap fetch and store *)
(*   SpecLifecycle SpecSession with Home unmounted and mounted again       *)
(***************************************************************************)
EXTENDS Integers, Sequences, FiniteSets, TLC

VARIABLES
    \* ---- InpaintingManager fields (InpaintingManager.cs:22-32)
    isSelectionMode,          \* private bool isSelectionMode
    isProcessing,             \* private bool isProcessing
    highlightFace,            \* GameObject highlightFace: [exists, active, mesh]
    currentHighlightedFace,   \* string currentHighlightedFace ("" when none)
    selectedFaceName,         \* string selectedFaceName
    selectedPanoId,           \* string selectedPanoId
    coroutines,               \* running InpaintWorkflow coroutines, in start order
    \* ---- observation counters of the manager's effects
    regenCount,               \* meshes assigned by UpdateHighlightMesh
    faceChanges,              \* ticks on which the classified face differed
    createCount,              \* GameObjects made by CreateHighlightObject
    postCount,                \* UnityWebRequest POSTs sent
    acceptCount,              \* confirmations that passed OnFaceSelected's guard
    openCount,                \* Application.OpenURL calls
    lastEvent,                \* the handler that ran last, with its inputs
    \* ---- classifier harness
    direction,                \* the Vector3 handed to the classifier
    scale,                    \* a positive factor k
    face,                     \* classify(direction), "" before the call
    scaledFace,               \* classify(scale * direction), "" before the call
    \* ---- web application (Home component)
    file,                     \* useStore state.file: [exists, name, type, bytes]
    publishCount,             \* calls of setFile made by the socket handler
    lastPush,                 \* the last unity_image_received event, as handled
    \* ---- web application session (useInputImage, socket.io client)
    imageParam,               \* the ?image= URL parameter ("" when absent)
    inputImage,               \* useInputImage state: [exists, name, type, bytes]
    fetchState,               \* the bootstrap fetch: "idle", "pending", "settled"
    effectPending,            \* Home's [userInputImage] effect is due to run
    socketState,              \* "none", "opening", "open", "reconnecting",
                              \* "failed"
    attempts,                 \* reconnection attempts since the last drop
    appEvent,                 \* the web handler that ran last
    subscription,             \* Home's socket effect: [mounted, listeners,
                              \* mounts]
    \* ---- handoff request harness
    request,                  \* [faceName, panoId, baseUrl, imageUrl, jsonPayload]
    \* ---- highlight mesh harness
    meshGen                   \* [faceName, S, pc, vertices, triangles]

managerVars == <<isSelectionMode, isProcessing, highlightFace,
                 currentHighlightedFace, selectedFaceName, selectedPanoId,
                 coroutines, regenCount, faceChanges, createCount, postCount,
                 acceptCount, openCount, lastEvent>>
classifyVars == <<direction, scale, face, scaledFace>>
ingestVars == <<file, publishCount, lastPush>>
sessionVars == <<imageParam, inputImage, fetchState, effectPending,
                 socketState, attempts, appEvent, subscription>>
auxVars == <<sessionVars, request, meshGen>>
vars == <<managerVars, classifyVars, ingestVars, auxVars>>

(***************************************************************************)
(* Face classifier                                                         *)
(***************************************************************************)

\* Largest absolute component of the bounded direction grid.
MaxCoord == 2
\* Largest scale factor k tried for classify(k*d).
MaxScale == 3

\* the CubemapFace values the classifier can return, as CubemapFace.ToString()
Faces == {"PositiveX", "NegativeX", "PositiveY", "NegativeY",
          "PositiveZ", "NegativeZ"}

Coords == (0 - MaxCoord)..MaxCoord
Vectors == Coords \X Coords \X Coords

\* Mathf.Abs
Abs(v) == IF v < 0 THEN 0 - v ELSE v

\* k * d, componentwise
Scaled(k, d) == <<k * d[1], k * d[2], k * d[3]>>

\* A classifier whose first test accepts ties on x (x wins every tie it is in).
GetCubemapFaceFromDirection_XFirst(d) ==
    LET ax == Abs(d[1])
        ay == Abs(d[2])
        az == Abs(d[3])
    IN  IF ax >= ay /\ ax >= az
        THEN (IF d[1] > 0 THEN "PositiveX" ELSE "NegativeX")
        ELSE IF ay >= az
        THEN (IF d[2] > 0 THEN "PositiveY" ELSE "NegativeY")
        ELSE (IF d[3] > 0 THEN "PositiveZ" ELSE "NegativeZ")

\* A classifier whose second test forgets that x may still dominate z only.
GetCubemapFaceFromDirection_NoYZ(d) ==
    LET ax == Abs(d[1])
        ay == Abs(d[2])
        az == Abs(d[3])
    IN  IF ax > ay /\ ax > az
        THEN (IF d[1] > 0 THEN "PositiveX" ELSE "NegativeX")
        ELSE IF ay > ax
        THEN (IF d[2] > 0 THEN "PositiveY" ELSE "NegativeY")
        ELSE (IF d[3] > 0 THEN "PositiveZ" ELSE "NegativeZ")

\* A classifier that compares x against a fixed margin instead of the others.
GetCubemapFaceFromDirection_Margin(d) ==
    LET ax == Abs(d[1])
        ay == Abs(d[2])
        az == Abs(d[3])
    IN  IF ax > ay + 1 /\ ax > az + 1
        THEN (IF d[1] > 0 THEN "PositiveX" ELSE "NegativeX")
        ELSE IF ay > az
        THEN (IF d[2] > 0 THEN "PositiveY" ELSE "NegativeY")
        ELSE (IF d[3] > 0 THEN "PositiveZ" ELSE "NegativeZ")

\* A classifier whose last test is z >= 0.
GetCubemapFaceFromDirection_ZNotNegative(d) ==
    LET ax == Abs(d[1])
        ay == Abs(d[2])
        az == Abs(d[3])
    IN  IF ax > ay /\ ax > az
        THEN (IF d[1] > 0 THEN "PositiveX" ELSE "NegativeX")
        ELSE IF ay > az
        THEN (IF d[2] > 0 THEN "PositiveY" ELSE "NegativeY")
        ELSE (IF d[3] >= 0 THEN "PositiveZ" ELSE "NegativeZ")

\* InpaintingManager.GetCubemapFaceFromDirection
GetCubemapFaceFromDirection(d) ==
    LET ax == Abs(d[1])
        ay == Abs(d[2])
        az == Abs(d[3])
    IN  IF ax > ay /\ ax > az
        THEN (IF d[1] > 0 THEN "PositiveX" ELSE "NegativeX")
        ELSE IF ay > az
        THEN (IF d[2] > 0 THEN "PositiveY" ELSE "NegativeY")
        ELSE (IF d[3] > 0 THEN "PositiveZ" ELSE "NegativeZ")

\* InpaintingManager.GetFaceNameFromDirection: face.ToString()
GetFaceNameFromDirection(d) == GetCubemapFaceFromDirection(d)


(***************************************************************************)
(* InpaintingManager: the selection workflow                               *)
(***************************************************************************)

\* Ticks that change the classified face, per behaviour.
MaxFaceChanges == 2
\* Confirmations accepted by OnFaceSelected, per behaviour.
MaxConfirms == 2

\* Input.mousePosition through ScreenPointToRay: the directions a tick may see.
TickDirections == {<<1, 0, 0>>, <<1, 1, 0>>, <<0, 0, -1>>}

\* pov.panoid values of the scene, and GetCurrentPanoId's fallback
PanoIds == {"P1"}
PanoIdUnknown == "PanoID_Unknown"

\* What the scene answers during one frame: GetActiveSphere() non-null,
\* GetCubemapFromActiveSphere() non-null, and GetCurrentPanoId().
Envs == {e \in [sphere : BOOLEAN, cubemap : BOOLEAN,
                pano : PanoIds \cup {PanoIdUnknown}] :
            /\ e.cubemap => e.sphere
            /\ ~e.sphere => e.pano = PanoIdUnknown}

\* One frame's input: cursor direction, right click, Escape, and the scene.
TickInputs == [dir : TickDirections, mouse : BOOLEAN, esc : BOOLEAN, env : Envs]

\* UnityWebRequest results: isNetworkError / isHttpError or neither
\* (a timeout is reported as a network error with its own message).
Outcomes == {"Success", "NetworkError", "HttpError", "Timeout"}

\* highlightFace == null
NoHighlight == [exists |-> FALSE, active |-> FALSE, mesh |-> ""]

\* The manager's fields and effect counters as one record.
Mgr == [isSelectionMode |-> isSelectionMode,
        isProcessing |-> isProcessing,
        highlightFace |-> highlightFace,
        currentHighlightedFace |-> currentHighlightedFace,
        selectedFaceName |-> selectedFaceName,
        selectedPanoId |-> selectedPanoId,
        coroutines |-> coroutines,
        regenCount |-> regenCount,
        faceChanges |-> faceChanges,
        createCount |-> createCount,
        postCount |-> postCount,
        acceptCount |-> acceptCount,
        openCount |-> openCount]

\* The fields after a handler: s is the record the handler returns.
Commit(s) ==
    /\ isSelectionMode' = s.isSelectionMode
    /\ isProcessing' = s.isProcessing
    /\ highlightFace' = s.highlightFace
    /\ currentHighlightedFace' = s.currentHighlightedFace
    /\ selectedFaceName' = s.selectedFaceName
    /\ selectedPanoId' = s.selectedPanoId
    /\ coroutines' = s.coroutines
    /\ regenCount' = s.regenCount
    /\ faceChanges' = s.faceChanges
    /\ createCount' = s.createCount
    /\ postCount' = s.postCount
    /\ acceptCount' = s.acceptCount
    /\ openCount' = s.openCount

\* InpaintingManager.ClearHighlight
ClearHighlight(s) ==
    [s EXCEPT !.highlightFace =
                  IF @.exists THEN [@ EXCEPT !.active = FALSE] ELSE @,
              !.currentHighlightedFace = ""]

\* InpaintingManager.EnterSelectionMode
EnterSelectionMode(s) == [s EXCEPT !.isSelectionMode = TRUE]

\* An ExitSelectionMode that leaves the highlight as it is.
ExitSelectionMode_NoClear(s) == [s EXCEPT !.isSelectionMode = FALSE]

\* InpaintingManager.ExitSelectionMode
ExitSelectionMode(s) == ClearHighlight([s EXCEPT !.isSelectionMode = FALSE])

\* InpaintingManager.OnInpaintButtonClicked
OnInpaintButtonClicked(s) ==
    IF ~s.isSelectionMode THEN EnterSelectionMode(s) ELSE ExitSelectionMode(s)

\* InpaintingManager.CreateHighlightObject: a new GameObject is active and
\* its MeshFilter holds no mesh yet.
CreateHighlightObject(s) ==
    [s EXCEPT !.highlightFace = [exists |-> TRUE, active |-> TRUE, mesh |-> ""],
              !.createCount = @ + 1]

\* InpaintingManager.UpdateHighlightMesh: a new mesh built from
\* GetFaceCorners(faceName) replaces the MeshFilter's mesh.
UpdateHighlightMesh(s, faceName) ==
    IF ~s.highlightFace.exists
    THEN s
    ELSE [s EXCEPT !.highlightFace = [exists |-> TRUE, active |-> TRUE,
                                       mesh |-> faceName],
                   !.regenCount = @ + 1]

\* An UpdateFaceHighlight without the highlightFace == null test.
UpdateFaceHighlight_AlwaysCreate(s, faceName, env) ==
    IF ~env.sphere THEN s
    ELSE IF ~env.cubemap THEN s
    ELSE UpdateHighlightMesh(CreateHighlightObject(s), faceName)

\* InpaintingManager.UpdateFaceHighlight
UpdateFaceHighlight(s, faceName, env) ==
    IF ~env.sphere THEN s
    ELSE IF ~env.cubemap THEN s
    ELSE UpdateHighlightMesh(
             IF ~s.highlightFace.exists THEN CreateHighlightObject(s) ELSE s,
             faceName)

\* A file-name table with the codes of up and down exchanged.
GetFaceFileName_UpDown(faceName) ==
    CASE faceName = "PositiveX" -> "r"
      [] faceName = "NegativeX" -> "l"
      [] faceName = "PositiveY" -> "d"
      [] faceName = "NegativeY" -> "u"
      [] faceName = "PositiveZ" -> "f"
      [] faceName = "NegativeZ" -> "b"
      [] OTHER -> "f"

\* InpaintingManager.GetFaceFileName
GetFaceFileName(faceName) ==
    CASE faceName = "PositiveX" -> "r"
      [] faceName = "NegativeX" -> "l"
      [] faceName = "PositiveY" -> "u"
      [] faceName = "NegativeY" -> "d"
      [] faceName = "PositiveZ" -> "f"
      [] faceName = "NegativeZ" -> "b"
      [] OTHER -> "f"

\* GetCubemapsFolderUrl's fallback when no POVManager configuration exists
DefaultCubemapsUrl == "http://localhost:8000/images/cubemaps"

\* config.CubemapsUrl values tried
ConfiguredCubemapsUrls == {"https://cdn.example/cubemaps"}

\* InpaintingManager.GetCubemapsFolderUrl: config is "" when
\* FindObjectOfType<POVManager>()?.configSettings is null
GetCubemapsFolderUrl(config) ==
    IF config # "" THEN config ELSE DefaultCubemapsUrl

\* SendFaceToIOPaint: string imageUrl
ImageUrl(baseUrl, panoId, faceName) ==
    baseUrl \o "/" \o panoId \o "/" \o panoId \o "_"
            \o GetFaceFileName(faceName) \o ".png"

\* SendFaceToIOPaint: string jsonPayload
JsonPayload(imageUrl) == "{\"image_url\":\"" \o imageUrl \o "\"}"

\* SendFaceToIOPaint up to its yield: the request is built and sent.
SendFaceToIOPaint(s, faceName, panoId) ==
    [s EXCEPT !.postCount = @ + 1,
              !.coroutines = Append(@, [faceName |-> faceName,
                                        panoId |-> panoId,
                                        pc |-> "SendWebRequest",
                                        outcome |-> "Pending"])]

\* An InpaintWorkflow that raises the flag only after the request returned.
InpaintWorkflow_LateFlag(s, faceName, panoId) ==
    SendFaceToIOPaint(s, faceName, panoId)

\* An InpaintWorkflow that opens the URL before it waits for the request.
InpaintWorkflow_OpenFirst(s, faceName, panoId) ==
    SendFaceToIOPaint([s EXCEPT !.isProcessing = TRUE,
                                !.openCount = @ + 1],
                      faceName, panoId)

\* InpaintWorkflow up to its first yield (StartCoroutine runs it at once).
InpaintWorkflow(s, faceName, panoId) ==
    SendFaceToIOPaint([s EXCEPT !.isProcessing = TRUE], faceName, panoId)

\* An OnFaceSelected that refuses the placeholder panorama id.
OnFaceSelected_NeedsPano(s, faceName, panoId) ==
    IF s.isProcessing \/ panoId = PanoIdUnknown
    THEN s
    ELSE InpaintWorkflow([s EXCEPT !.selectedFaceName = faceName,
                                   !.selectedPanoId = panoId,
                                   !.acceptCount = @ + 1],
                         faceName, panoId)

\* An OnFaceSelected that starts the workflow with the fields as they were
\* before this confirmation.
OnFaceSelected_Stale(s, faceName, panoId) ==
    IF s.isProcessing
    THEN s
    ELSE InpaintWorkflow([s EXCEPT !.selectedFaceName = faceName,
                                   !.selectedPanoId = panoId,
                                   !.acceptCount = @ + 1],
                         s.selectedFaceName, s.selectedPanoId)

\* InpaintingManager.OnFaceSelected
OnFaceSelected(s, faceName, panoId) ==
    IF s.isProcessing
    THEN s
    ELSE InpaintWorkflow([s EXCEPT !.selectedFaceName = faceName,
                                   !.selectedPanoId = panoId,
                                   !.acceptCount = @ + 1],
                         faceName, panoId)

\* InpaintingManager.HandleCursorFaceDetection
HandleCursorFaceDetection(s, in) ==
    LET faceName == GetFaceNameFromDirection(in.dir)
        panoId == in.env.pano
        s1 == IF faceName # s.currentHighlightedFace
              THEN [UpdateFaceHighlight(s, faceName, in.env)
                       EXCEPT !.currentHighlightedFace = faceName,
                              !.faceChanges = @ + 1]
              ELSE s
        s2 == IF in.mouse THEN OnFaceSelected(s1, faceName, panoId) ELSE s1
    IN  IF in.esc THEN ExitSelectionMode(s2) ELSE s2

\* An Update that polls whenever selection mode is on.
UpdateStep_NoProcessingTest(s, in) ==
    IF s.isSelectionMode
    THEN HandleCursorFaceDetection(s, in)
    ELSE s

\* InpaintingManager.Update
UpdateStep(s, in) ==
    IF s.isSelectionMode /\ ~s.isProcessing
    THEN HandleCursorFaceDetection(s, in)
    ELSE s

\* A SendFaceToIOPaint that sends the request again after a failure.
SendFaceToIOPaintDone_Retry(s, i, outcome) ==
    IF outcome = "Success"
    THEN [s EXCEPT !.coroutines[i].pc = "OpenURL",
                   !.coroutines[i].outcome = outcome]
    ELSE [s EXCEPT !.postCount = @ + 1]

\* SendFaceToIOPaint after its yield: the outcome is logged and the
\* coroutine ends, which lets InpaintWorkflow go on.
SendFaceToIOPaintDone(s, i, outcome) ==
    [s EXCEPT !.coroutines[i].pc = "OpenURL",
              !.coroutines[i].outcome = outcome]

\* the sequence q without its i-th element
RemoveAt(q, i) == [j \in 1..(Len(q) - 1) |-> IF j < i THEN q[j] ELSE q[j + 1]]

\* An InpaintWorkflow that ends without resetting isProcessing.
InpaintWorkflowDone_KeepFlag(s, i) ==
    [s EXCEPT !.openCount = @ + 1,
              !.coroutines = RemoveAt(@, i)]

\* InpaintWorkflow after its yield: Application.OpenURL, isProcessing = false.
InpaintWorkflowDone(s, i) ==
    [s EXCEPT !.openCount = @ + 1,
              !.isProcessing = FALSE,
              !.coroutines = RemoveAt(@, i)]

\* lastEvent of a handler without frame input
Event(op, polled, outcome) ==
    [op |-> op, mouse |-> FALSE, esc |-> FALSE, polled |-> polled,
     outcome |-> outcome]

OthersUnchangedByManager == UNCHANGED <<classifyVars, ingestVars, auxVars>>

\* One frame: Unity calls Update.
Update ==
    \E in \in TickInputs :
        LET s == UpdateStep(Mgr, in)
        IN  /\ s.faceChanges <= MaxFaceChanges
            /\ s.acceptCount <= MaxConfirms
            /\ Commit(s)
            /\ lastEvent' = [op |-> "Update", mouse |-> in.mouse,
                             esc |-> in.esc,
                             polled |-> isSelectionMode /\ ~isProcessing,
                             outcome |-> "None"]
            /\ OthersUnchangedByManager

\* The user presses the inpaint button.
ButtonClick ==
    /\ Commit(OnInpaintButtonClicked(Mgr))
    /\ lastEvent' = Event("OnInpaintButtonClicked", FALSE, "None")
    /\ OthersUnchangedByManager

\* The web request of a running coroutine comes back.
WebRequestReturns ==
    \E i \in 1..Len(coroutines) : \E outcome \in Outcomes :
        /\ coroutines[i].pc = "SendWebRequest"
        /\ LET s == SendFaceToIOPaintDone(Mgr, i, outcome)
           IN  /\ s.postCount <= MaxConfirms + 1
               /\ Commit(s)
        /\ lastEvent' = Event("SendFaceToIOPaintDone", FALSE, outcome)
        /\ OthersUnchangedByManager

\* Unity resumes InpaintWorkflow after the nested coroutine ended.
WorkflowResumes ==
    \E i \in 1..Len(coroutines) :
        /\ coroutines[i].pc = "OpenURL"
        /\ Commit(InpaintWorkflowDone(Mgr, i))
        /\ lastEvent' = Event("InpaintWorkflowDone", FALSE,
                              coroutines[i].outcome)
        /\ OthersUnchangedByManager

ClassifyIdle ==
    /\ direction = <<0, 0, 0>>
    /\ scale = 1
    /\ face = ""
    /\ scaledFace = ""

\* state.file == null
NoFile == [exists |-> FALSE, name |-> "", type |-> "", bytes |-> <<>>]

\* no unity_image_received event handled yet
NoPush == [kind |-> "None", size |-> 0]

IngestIdle ==
    /\ file = NoFile
    /\ publishCount = 0
    /\ lastPush = NoPush

\* a web handler without further detail
AppEvent(op) ==
    [op |-> op, bad |-> FALSE, logged |-> FALSE, threw |-> FALSE]

\* Home is not mounted: no socket, no listener.
NoSubscription == [mounted |-> FALSE, listeners |-> 0, mounts |-> 0]

\* The page is not loaded: no fetch, no socket.
SessionIdle ==
    /\ imageParam = ""
    /\ inputImage = NoFile
    /\ fetchState = "idle"
    /\ effectPending = FALSE
    /\ socketState = "none"
    /\ attempts = 0
    /\ appEvent = AppEvent("None")
    /\ subscription = NoSubscription

\* SendFaceToIOPaint has built no request.
NoRequest == [faceName |-> "", panoId |-> "", baseUrl |-> "",
              imageUrl |-> "", jsonPayload |-> ""]

\* UpdateHighlightMesh has not been called.
NoMesh == [faceName |-> "", S |-> 0, pc |-> "idle", vertices |-> <<>>,
           triangles |-> <<>>]

AuxIdle ==
    /\ SessionIdle
    /\ request = NoRequest
    /\ meshGen = NoMesh

\* The fields as declared, after Start().
ManagerInit ==
    /\ isSelectionMode = FALSE
    /\ isProcessing = FALSE
    /\ highlightFace = NoHighlight
    /\ currentHighlightedFace = ""
    /\ selectedFaceName = ""
    /\ selectedPanoId = ""
    /\ coroutines = <<>>
    /\ regenCount = 0
    /\ faceChanges = 0
    /\ createCount = 0
    /\ postCount = 0
    /\ acceptCount = 0
    /\ openCount = 0
    /\ lastEvent = Event("Start", FALSE, "None")

Init == ManagerInit /\ ClassifyIdle /\ IngestIdle /\ AuxIdle

Next == Update \/ ButtonClick \/ WebRequestReturns \/ WorkflowResumes

Spec == Init /\ [][Next]_vars

\* Spec with the coroutine scheduler's fairness: a request that was sent
\* comes back (request.timeout bounds the wait), and Unity resumes a
\* coroutine whose yield instruction has finished on a later frame.
SpecLive ==
    /\ Spec
    /\ WF_vars(WebRequestReturns)
    /\ WF_vars(WorkflowResumes)


(***************************************************************************)
(* Selection workflow: claims C1..C5                                       *)
(***************************************************************************)

\* C1 (as stated): when the handoff dispatch started by a confirmation
\* completes, the workflow is Idle: selection mode is inactive and the
\* manager is not processing.
C1_IdleAfterDispatch ==
    lastEvent.op = "InpaintWorkflowDone" =>
        (~isSelectionMode /\ ~isProcessing)

\* C2: a confirmation received while Processing changes nothing (the state
\* stays Processing, no request is sent, no coroutine is started), and at
\* most one handoff dispatch is in flight at any time.
C2_NoReentrantDispatch ==
    /\ [](Len(coroutines) <= 1 /\ (isProcessing <=> Len(coroutines) = 1))
    /\ [][(isProcessing /\ lastEvent'.op = "Update" /\ lastEvent'.mouse) =>
             (isProcessing' /\ UNCHANGED <<isSelectionMode, highlightFace,
                  currentHighlightedFace, selectedFaceName, selectedPanoId,
                  coroutines, postCount, acceptCount, openCount>>)]_vars

\* A frame with a right click arrived while a dispatch was in flight.
C2_Witness ==
    /\ lastEvent.op = "Update"
    /\ lastEvent.mouse
    /\ ~lastEvent.polled
    /\ isProcessing
    /\ Len(coroutines) = 1
    /\ postCount = 1

\* C3 (as stated): the highlight mesh is regenerated exactly once per change
\* of the classified face, so the regenerations number the face changes.
C3_RegenPerFaceChange == regenCount = faceChanges

\* C4 (as stated): a cancel input received while Processing (the toggle
\* button with selection mode on, or Escape on the frame whose right click
\* started the dispatch) leaves selection mode, the highlight and the
\* remembered face as they are.
C4_CancelOnlyWhileSelecting ==
    [][/\ (isProcessing /\ isSelectionMode
             /\ lastEvent'.op = "OnInpaintButtonClicked")
          => UNCHANGED <<isSelectionMode, highlightFace,
                         currentHighlightedFace>>
       /\ (lastEvent'.op = "Update" /\ lastEvent'.polled
             /\ lastEvent'.mouse /\ lastEvent'.esc)
          => (isSelectionMode' /\ currentHighlightedFace' # "")]_vars

\* C5: every accepted confirmation has caused exactly one POST, a returned
\* request (failed or not) sends nothing again and keeps the manager
\* Processing, and the end of the workflow opens the external interface
\* once and leaves Processing, whatever the outcome of the request was.
C5_FailureNotRetried ==
    /\ [](postCount = acceptCount)
    /\ [][lastEvent'.op = "SendFaceToIOPaintDone" =>
             (/\ isProcessing'
              /\ Len(coroutines') = Len(coroutines)
              /\ UNCHANGED <<postCount, acceptCount, openCount,
                             isSelectionMode>>)]_vars
    /\ [][lastEvent'.op = "InpaintWorkflowDone" =>
             (/\ ~isProcessing'
              /\ openCount' = openCount + 1
              /\ Len(coroutines') = Len(coroutines) - 1
              /\ UNCHANGED <<postCount, acceptCount, isSelectionMode,
                             highlightFace, currentHighlightedFace,
                             selectedFaceName, selectedPanoId>>)]_vars

\* A workflow whose request failed has ended.
C5_Witness ==
    /\ lastEvent.op = "InpaintWorkflowDone"
    /\ lastEvent.outcome \in {"NetworkError", "HttpError", "Timeout"}
    /\ ~isProcessing
    /\ postCount = 1
    /\ openCount = 1


(***************************************************************************)
(* Face classifier on a bounded grid: claims C6..C8                        *)
(***************************************************************************)

\* InpaintingManager.GetFaceDirection: the outward normal of a face
\* (Vector3.right, left, up, down, forward, back).
GetFaceDirection(faceName) ==
    CASE faceName = "PositiveX" -> <<1, 0, 0>>
      [] faceName = "NegativeX" -> <<-1, 0, 0>>
      [] faceName = "PositiveY" -> <<0, 1, 0>>
      [] faceName = "NegativeY" -> <<0, -1, 0>>
      [] faceName = "PositiveZ" -> <<0, 0, 1>>
      [] faceName = "NegativeZ" -> <<0, 0, -1>>
      [] OTHER -> <<0, 0, 1>>

\* The harness calls the classifier on d and on k*d.
Classify ==
    /\ face = ""
    /\ face' = GetFaceNameFromDirection(direction)
    /\ scaledFace' = GetFaceNameFromDirection(Scaled(scale, direction))
    /\ UNCHANGED <<direction, scale, managerVars, ingestVars, auxVars>>

InitClassify ==
    /\ ManagerInit
    /\ IngestIdle
    /\ AuxIdle
    /\ direction \in Vectors
    /\ scale \in 1..MaxScale
    /\ face = ""
    /\ scaledFace = ""

NextClassify == Classify

SpecClassify == InitClassify /\ [][NextClassify]_vars

\* the axis (1 = x, 2 = y, 3 = z) a face lies on
FaceAxis(faceName) ==
    CHOOSE i \in 1..3 : GetFaceDirection(faceName)[i] # 0

\* the largest of |x|, |y|, |z|
MaxAbs(d) ==
    CHOOSE m \in {Abs(d[1]), Abs(d[2]), Abs(d[3])} :
        \A i \in 1..3 : Abs(d[i]) <= m

\* the axes whose absolute component is the largest
MaxAxes(d) == {i \in 1..3 : Abs(d[i]) = MaxAbs(d)}

\* C6: for a non-zero direction the classifier returns one of the six faces,
\* the face lies on an axis whose absolute component is the largest, and its
\* sign is the sign of that component.
C6_DominantAxis ==
    (face # "" /\ direction # <<0, 0, 0>>) =>
        /\ face \in Faces
        /\ FaceAxis(face) \in MaxAxes(direction)
        /\ direction[FaceAxis(face)] * GetFaceDirection(face)[FaceAxis(face)] > 0

\* A direction with a dominant negative x has been classified.
C6_Witness ==
    /\ direction = <<-2, 1, 1>>
    /\ face = "NegativeX"

\* C7 (as stated): with two or more axes tied for the largest absolute
\* component, x wins over y and y over z.
C7_TieXYZ ==
    (face # "" /\ Cardinality(MaxAxes(direction)) >= 2) =>
        \A i \in MaxAxes(direction) : FaceAxis(face) <= i

\* C7 (amended): with two or more axes tied for the largest absolute
\* component, z wins over y and y over x.
C7_TieZYX ==
    (face # "" /\ Cardinality(MaxAxes(direction)) >= 2) =>
        /\ FaceAxis(face) \in MaxAxes(direction)
        /\ \A i \in MaxAxes(direction) : FaceAxis(face) >= i

\* A direction with |x| = |y| > |z| has been classified as a Y face.
C7_Witness ==
    /\ direction = <<1, -1, 0>>
    /\ face = "NegativeY"

\* C8: classify(k*d) = classify(d) for every non-zero d and every k > 0.
C8_ScaleInvariant ==
    (face # "" /\ direction # <<0, 0, 0>>) => scaledFace = face

\* A tied direction and its triple have been classified alike.
C8_Witness ==
    /\ scale = 3
    /\ direction = <<2, 0, -2>>
    /\ face = "NegativeZ"
    /\ scaledFace = "NegativeZ"


(***************************************************************************)
(* Web application: the unity_image_received handler, claims C9..C10       *)
(***************************************************************************)

\* Longest data.image string tried.
MaxB64Len == 3
\* setFile calls by the handler, per behaviour.
MaxPush == 2

\* the characters data.image is made of here: two base64 digits, the
\* padding sign, an ASCII blank and a character outside the alphabet
B64Digits == {"i", "Q"}
PayloadChars == B64Digits \cup {"=", " ", "!"}

\* the base64 value of a digit (A-Z 0..25, a-z 26..51, 0-9 52..61, + 62, / 63)
B64Value(c) ==
    CASE c = "Q" -> 16
      [] c = "i" -> 34

\* strings of length 0..n over the set S
RECURSIVE StringsUpTo(_, _)
StringsUpTo(S, n) ==
    IF n = 0
    THEN {<<>>}
    ELSE LET shorter == StringsUpTo(S, n - 1)
         IN  shorter \cup {Append(w, c) : w \in {v \in shorter : Len(v) = n - 1},
                                          c \in S}

\* the number whose base-64 digits are the characters of w
RECURSIVE DigitsValue(_)
DigitsValue(w) ==
    IF w = <<>>
    THEN 0
    ELSE 64 * DigitsValue(SubSeq(w, 1, Len(w) - 1)) + B64Value(w[Len(w)])

\* the n base-256 digits of v, most significant first
RECURSIVE BytesOf(_, _)
BytesOf(v, n) ==
    IF n = 0 THEN <<>> ELSE Append(BytesOf(v \div 256, n - 1), v % 256)

RECURSIVE Pow2(_)
Pow2(n) == IF n = 0 THEN 1 ELSE 2 * Pow2(n - 1)

\* window.atob (forgiving-base64 decode): ASCII whitespace is removed; when
\* the length is a multiple of 4 one or two trailing "=" are removed; a
\* length of 1 modulo 4 or a character outside the alphabet throws; every 4
\* digits give 3 bytes and the left-over bits of the last group are dropped.
Atob(str) ==
    LET noWs == SelectSeq(str, LAMBDA c : c # " ")
        n == Len(noWs)
        pad == IF n > 0 /\ n % 4 = 0
               THEN (IF noWs[n] = "=" /\ noWs[n - 1] = "=" THEN 2
                     ELSE IF noWs[n] = "=" THEN 1 ELSE 0)
               ELSE 0
        digits == SubSeq(noWs, 1, n - pad)
        m == Len(digits)
    IN  IF m % 4 = 1 \/ \E j \in 1..m : digits[j] \notin B64Digits
        THEN [ok |-> FALSE, bytes |-> <<>>]
        ELSE [ok |-> TRUE,
              bytes |-> BytesOf(DigitsValue(digits) \div Pow2((6 * m) % 8),
                                (6 * m) \div 8)]

\* The event payloads: no data, data without an image field, or data.image
\* a string.
Payloads ==
    {[present |-> FALSE, hasImage |-> FALSE, image |-> <<>>],
     [present |-> TRUE, hasImage |-> FALSE, image |-> <<>>]}
    \cup [present : {TRUE}, hasImage : {TRUE},
          image : StringsUpTo(PayloadChars, MaxB64Len)]

\* The web application's shared state touched by the handler.
App == [file |-> file, publishCount |-> publishCount]

\* new File([blob], "unity-image.png", { type: "image/png" })
UnityFile(bytes) ==
    [exists |-> TRUE, name |-> "unity-image.png", type |-> "image/png",
     bytes |-> bytes]

\* useStore setFile, as called by the handler
SetFile(a, f) == [a EXCEPT !.file = f, !.publishCount = @ + 1]

\* A handler whose copy loop stops one character early.
OnUnityImageReceived_ShortCopy(a, data) ==
    IF data.present /\ data.hasImage /\ data.image # <<>>
    THEN LET decoded == Atob(data.image)
         IN  IF decoded.ok
             THEN SetFile(a, UnityFile(SubSeq(decoded.bytes, 1,
                                              Len(decoded.bytes) - 1)))
             ELSE a
    ELSE a

\* socket.on("unity_image_received", ...): data && data.image, then atob
\* inside try / catch, Blob, File, setFile.
OnUnityImageReceived(a, data) ==
    IF data.present /\ data.hasImage /\ data.image # <<>>
    THEN LET decoded == Atob(data.image)
         IN  IF decoded.ok
             THEN SetFile(a, UnityFile(decoded.bytes))
             ELSE a
    ELSE a

\* The first bytes of the image types the application accepts
\* (SUPPORTED_FILE_TYPE): JPEG 0xFF, PNG 0x89, WebP "R", BMP "B",
\* TIFF "I" or "M".
ImageMagic == {255, 137, 82, 66, 73, 77}

\* bytes that can be an image: not empty and starting as one of the types
LooksLikeImage(bytes) == bytes # <<>> /\ bytes[1] \in ImageMagic

\* What a payload is, by the cases of the push contract.
PayloadKind(data) ==
    IF ~data.present THEN "Missing"
    ELSE IF ~data.hasImage THEN "NoImageField"
    ELSE IF data.image = <<>> THEN "EmptyImage"
    ELSE IF ~Atob(data.image).ok THEN "DecodeFails"
    ELSE IF ~LooksLikeImage(Atob(data.image).bytes) THEN "NotAnImage"
    ELSE "Image"

\* The server emits unity_image_received and the handler runs.
UnityImageReceived ==
    \E data \in Payloads :
        LET a == OnUnityImageReceived(App, data)
        IN  /\ a.publishCount <= MaxPush
            /\ file' = a.file
            /\ publishCount' = a.publishCount
            /\ lastPush' = [kind |-> PayloadKind(data),
                            size |-> Len(Atob(data.image).bytes)]
            /\ UNCHANGED <<managerVars, classifyVars, auxVars>>

InitIngest == ManagerInit /\ ClassifyIdle /\ IngestIdle /\ AuxIdle

NextIngest == UnityImageReceived

SpecIngest == InitIngest /\ [][NextIngest]_vars

\* C9 (as stated): an event whose payload is missing, has no image field,
\* has an empty image, fails base64 decoding or decodes to bytes that are
\* not an image publishes nothing and leaves the shared state unchanged.
C9_BadPayloadDiscarded ==
    [][lastPush'.kind \in {"Missing", "NoImageField", "EmptyImage",
                           "DecodeFails", "NotAnImage"} =>
          UNCHANGED <<file, publishCount>>]_vars

\* C10: an event carrying a valid base64 image publishes exactly one
\* artifact, whose byte length is the number of decoded bytes, whose type is
\* image/png and whose name is unity-image.png.
C10_ValidPayloadPublished ==
    [][lastPush'.kind = "Image" =>
          /\ publishCount' = publishCount + 1
          /\ file'.exists
          /\ Len(file'.bytes) = lastPush'.size
          /\ file'.type = "image/png"
          /\ file'.name = "unity-image.png"]_vars

\* A two-byte BMP-like payload has been published as image/png.
C10_Witness ==
    /\ lastPush = [kind |-> "Image", size |-> 2]
    /\ file.exists
    /\ file.bytes[1] = 66
    /\ file.type = "image/png"
    /\ publishCount = 1


(***************************************************************************)
(* Web application session: bootstrap fetch, Home effect, socket.io client *)
(***************************************************************************)

\* reconnectionAttempts of the io() options
ReconnectionAttempts == 5

\* the ?image= parameter of the page URL: absent or a cached file name
ImageParams == {"", "cached.png"}

\* What fetch gives back: a rejected promise (network error), or a response
\* with its ok flag, the type of its body and its content-disposition
\* header (absent, with filename=, or without a filename= part).
FetchResponses ==
    {[failed |-> TRUE, ok |-> FALSE, type |-> "", disposition |-> "absent"]}
    \cup [failed : {FALSE}, ok : BOOLEAN, type : {"image/png", "text/html"},
          disposition : {"absent", "filename", "malformed"}]

\* the bytes of a response body of the given type
BodyBytes(type) == IF type = "image/png" THEN <<137, 80>> ELSE <<60>>

\* new File([data], name): a File made without a type option has type ""
FetchedFile(name, type) ==
    [exists |-> TRUE, name |-> name, type |-> "", bytes |-> BodyBytes(type)]

\* data.type.startsWith("image")
IsImageType(type) == type = "image/png"

\* The hook's state and what the promise chain did: whether it called
\* setInputImage, whether its catch logged an error, and whether an error
\* left the chain unhandled.
Hook ==
    [inputImage |-> inputImage, changed |-> FALSE, logged |-> FALSE,
     threw |-> FALSE]

\* .catch((err) => { console.error(...) }): a rejection of fetch or of the
\* then callback is logged and the chain resolves.
CatchFetchError(h) == [h EXCEPT !.logged = TRUE, !.threw = FALSE]

\* setInputImage(userInput)
SetInputImage(h, f) == [h EXCEPT !.inputImage = f, !.changed = TRUE]

\* A cached-image branch that does not look at res.ok.
FetchCachedImage_NoOkTest(h, param, res) ==
    IF res.failed THEN CatchFetchError([h EXCEPT !.threw = TRUE])
    ELSE IF IsImageType(res.type)
    THEN SetInputImage(h, FetchedFile(param, res.type))
    ELSE h

\* fetchInputImage with ?image=: fetch(/api/v1/cached_image/<param>), its
\* then and its catch.
FetchCachedImage(h, param, res) ==
    IF res.failed THEN CatchFetchError([h EXCEPT !.threw = TRUE])
    ELSE IF ~res.ok THEN h
    ELSE IF IsImageType(res.type)
    THEN SetInputImage(h, FetchedFile(param, res.type))
    ELSE h

\* fetchInputImage without ?image=: fetch(API_ENDPOINT/inputimage), its then
\* and its catch. A content-disposition header without "filename=" makes
\* split("filename=")[1].split(";") throw, which the catch logs.
FetchDefaultImage(h, res) ==
    IF res.failed THEN CatchFetchError([h EXCEPT !.threw = TRUE])
    ELSE IF ~res.ok THEN h
    ELSE IF res.disposition = "malformed"
    THEN CatchFetchError([h EXCEPT !.threw = TRUE])
    ELSE IF IsImageType(res.type)
    THEN SetInputImage(h, FetchedFile(IF res.disposition = "filename"
                                      THEN "input.png" ELSE "inputImage",
                                      res.type))
    ELSE h

\* useInputImage.fetchInputImage, once its fetch has settled
FetchInputImage(h, param, res) ==
    IF param # "" THEN FetchCachedImage(h, param, res)
    ELSE FetchDefaultImage(h, res)

\* the responses the fetch contract calls "no image available"
BadResponse(res) == res.failed \/ ~res.ok \/ ~IsImageType(res.type)

\* The bootstrap fetch settles and its then / catch run.
FetchSettles ==
    \E res \in FetchResponses :
        LET h == FetchInputImage(Hook, imageParam, res)
        IN  /\ fetchState = "pending"
            /\ fetchState' = "settled"
            /\ inputImage' = h.inputImage
            /\ effectPending' = (effectPending \/ h.changed)
            /\ appEvent' = [op |-> "FetchSettles", bad |-> BadResponse(res),
                            logged |-> h.logged, threw |-> h.threw]
            /\ UNCHANGED <<imageParam, socketState, attempts, ingestVars,
                           managerVars, classifyVars, request, meshGen,
                           subscription>>

\* Home: useEffect(() => { if (userInputImage) setFile(userInputImage) })
HomeInputImageEffect(a, img) ==
    IF img.exists THEN [a EXCEPT !.file = img] ELSE a

\* React runs Home's effect after the render that saw a new userInputImage.
HomeEffect ==
    /\ effectPending
    /\ effectPending' = FALSE
    /\ file' = HomeInputImageEffect(App, inputImage).file
    /\ appEvent' = AppEvent("HomeEffect")
    /\ UNCHANGED <<imageParam, inputImage, fetchState, socketState, attempts,
                   publishCount, lastPush, managerVars, classifyVars,
                   request, meshGen, subscription>>

\* Home's socket effect body: io(wsUrl, ...) creates a socket that starts
\* connecting, and socket.on("unity_image_received", ...) adds one listener.
HomeSocketEffect(sub) ==
    [mounted |-> TRUE, listeners |-> sub.listeners + 1,
     mounts |-> sub.mounts + 1]

\* The socket.io client as the effect configures it: reconnection on, a
\* bounded number of attempts. sock is [state, attempts].
Sock == [state |-> socketState, attempts |-> attempts]

\* The first connection or a reconnection attempt succeeds: "connect".
SocketOpened(sock) == [state |-> "open", attempts |-> 0]

\* The transport closes, or the first connection fails: with
\* reconnection: true the manager starts reconnecting.
SocketLost(sock) == [state |-> "reconnecting", attempts |-> 0]

\* A manager that gives up one failed attempt later.
ReconnectFailed_OneMore(sock) ==
    [state |-> IF sock.attempts >= ReconnectionAttempts
               THEN "failed" ELSE "reconnecting",
     attempts |-> sock.attempts + 1]

\* A reconnection attempt fails: the manager tries again unless
\* reconnectionAttempts attempts have been made, and then gives up.
ReconnectFailed(sock) ==
    [state |-> IF sock.attempts + 1 >= ReconnectionAttempts
               THEN "failed" ELSE "reconnecting",
     attempts |-> sock.attempts + 1]

SocketFrame ==
    UNCHANGED <<imageParam, inputImage, fetchState, effectPending,
                ingestVars, managerVars, classifyVars, request, meshGen,
                subscription>>

SocketConnects ==
    /\ socketState \in {"opening", "reconnecting"}
    /\ socketState' = SocketOpened(Sock).state
    /\ attempts' = SocketOpened(Sock).attempts
    /\ appEvent' = AppEvent("connect")
    /\ SocketFrame

SocketDrops ==
    /\ socketState \in {"opening", "open"}
    /\ socketState' = SocketLost(Sock).state
    /\ attempts' = SocketLost(Sock).attempts
    /\ appEvent' = AppEvent(IF socketState = "open" THEN "disconnect"
                            ELSE "connect_error")
    /\ SocketFrame

ReconnectFails ==
    /\ socketState = "reconnecting"
    /\ socketState' = ReconnectFailed(Sock).state
    /\ attempts' = ReconnectFailed(Sock).attempts
    /\ appEvent' = AppEvent("connect_error")
    /\ SocketFrame

\* the payloads a session sees: none, a PNG, bytes that are no image, and a
\* string atob rejects
SessionPayloads ==
    {[present |-> FALSE, hasImage |-> FALSE, image |-> <<>>],
     [present |-> TRUE, hasImage |-> TRUE, image |-> <<"i", "Q">>],
     [present |-> TRUE, hasImage |-> TRUE, image |-> <<"Q", "Q">>],
     [present |-> TRUE, hasImage |-> TRUE, image |-> <<"!">>]}

\* The server emits unity_image_received on the open socket.
SessionPush ==
    \E data \in SessionPayloads :
        LET a == OnUnityImageReceived(App, data)
        IN  /\ socketState = "open"
            /\ subscription.listeners > 0
            /\ a.publishCount <= MaxPush
            /\ file' = a.file
            /\ publishCount' = a.publishCount
            /\ lastPush' = [kind |-> PayloadKind(data),
                            size |-> Len(Atob(data.image).bytes)]
            /\ appEvent' = AppEvent("unity_image_received")
            /\ UNCHANGED <<imageParam, inputImage, fetchState, effectPending,
                           socketState, attempts, managerVars, classifyVars,
                           request, meshGen, subscription>>

\* Home has mounted: useInputImage's effect has called fetchInputImage and
\* the socket effect has called io().
InitSession ==
    /\ ManagerInit
    /\ ClassifyIdle
    /\ IngestIdle
    /\ request = NoRequest
    /\ meshGen = NoMesh
    /\ imageParam \in ImageParams
    /\ inputImage = NoFile
    /\ fetchState = "pending"
    /\ effectPending = FALSE
    /\ socketState = "opening"
    /\ attempts = 0
    /\ appEvent = AppEvent("mount")
    /\ subscription = HomeSocketEffect(NoSubscription)

NextSession ==
    \/ FetchSettles
    \/ HomeEffect
    \/ SocketConnects
    \/ SocketDrops
    \/ ReconnectFails
    \/ SessionPush

SpecSession == InitSession /\ [][NextSession]_vars

\* C11 (as stated): an artifact published by the push ingestor is never
\* replaced by the result of the bootstrap fetch, which started at mount and
\* so before any push arrived.
C11_PushNotReplacedByFetch ==
    [][(file.exists /\ file.name = "unity-image.png"
          /\ appEvent'.op = "HomeEffect") => file' = file]_vars


(***************************************************************************)
(* Handoff request: claim C12                                              *)
(***************************************************************************)

\* panorama ids handed to SendFaceToIOPaint
HandoffPanoIds == {"P1", "P2", "pano_7", "a-b", "PanoID_Unknown"}

\* SendFaceToIOPaint builds the image URL and the JSON body.
BuildRequest ==
    /\ request.imageUrl = ""
    /\ request' =
         [request EXCEPT
            !.imageUrl = ImageUrl(request.baseUrl, request.panoId,
                                  request.faceName),
            !.jsonPayload = JsonPayload(ImageUrl(request.baseUrl,
                                                 request.panoId,
                                                 request.faceName))]
    /\ UNCHANGED <<managerVars, classifyVars, ingestVars, sessionVars,
                   meshGen>>

InitHandoff ==
    /\ ManagerInit
    /\ ClassifyIdle
    /\ IngestIdle
    /\ SessionIdle
    /\ meshGen = NoMesh
    /\ request \in [faceName : Faces, panoId : HandoffPanoIds,
                    baseUrl : {GetCubemapsFolderUrl(c) :
                                 c \in ConfiguredCubemapsUrls \cup {""}},
                    imageUrl : {""}, jsonPayload : {""}]

NextHandoff == BuildRequest

SpecHandoff == InitHandoff /\ [][NextHandoff]_vars

\* the short code the handoff contract gives each face
FaceCode(faceName) ==
    CASE faceName = "PositiveX" -> "r"
      [] faceName = "NegativeX" -> "l"
      [] faceName = "PositiveY" -> "u"
      [] faceName = "NegativeY" -> "d"
      [] faceName = "PositiveZ" -> "f"
      [] faceName = "NegativeZ" -> "b"

\* C12: the handoff URL is base/panoId/panoId_code.png with the code r, l,
\* u, d, f, b of the face (one code per face), and the POST body is the text
\* {"image_url":"<that URL>"}.
C12_HandoffUrl ==
    request.imageUrl # "" =>
        /\ request.imageUrl =
             request.baseUrl \o "/" \o request.panoId \o "/"
                \o request.panoId \o "_" \o FaceCode(request.faceName)
                \o ".png"
        /\ request.jsonPayload =
             "{\"image_url\":\"" \o request.imageUrl \o "\"}"
        /\ \A f, g \in Faces :
             GetFaceFileName(f) = GetFaceFileName(g) => f = g

\* The request for face +Y of panorama P1 has been built.
C12_Witness ==
    /\ request.faceName = "PositiveY"
    /\ request.panoId = "P1"
    /\ request.baseUrl = DefaultCubemapsUrl
    /\ request.imageUrl = "http://localhost:8000/images/cubemaps/P1/P1_u.png"
    /\ request.jsonPayload =
         "{\"image_url\":\"http://localhost:8000/images/cubemaps/P1/P1_u.png\"}"


(***************************************************************************)
(* Highlight mesh: claim C13                                               *)
(***************************************************************************)

\* Largest subdivision factor tried besides the program's own.
MaxSubdiv == 3

\* int subdivisionsPerSide = 20
SubdivisionsPerSide == 20

\* InpaintingManager.GetFaceCorners
GetFaceCorners(faceName) ==
    CASE faceName = "PositiveZ" ->
           <<<<-1, -1, 1>>, <<1, -1, 1>>, <<1, 1, 1>>, <<-1, 1, 1>>>>
      [] faceName = "NegativeZ" ->
           <<<<1, -1, -1>>, <<-1, -1, -1>>, <<-1, 1, -1>>, <<1, 1, -1>>>>
      [] faceName = "PositiveX" ->
           <<<<1, -1, 1>>, <<1, -1, -1>>, <<1, 1, -1>>, <<1, 1, 1>>>>
      [] faceName = "NegativeX" ->
           <<<<-1, -1, -1>>, <<-1, -1, 1>>, <<-1, 1, 1>>, <<-1, 1, -1>>>>
      [] faceName = "PositiveY" ->
           <<<<-1, 1, -1>>, <<-1, 1, 1>>, <<1, 1, 1>>, <<1, 1, -1>>>>
      [] faceName = "NegativeY" ->
           <<<<-1, -1, 1>>, <<-1, -1, -1>>, <<1, -1, -1>>, <<1, -1, 1>>>>
      [] OTHER ->
           <<<<-1, -1, 1>>, <<1, -1, 1>>, <<1, 1, 1>>, <<-1, 1, 1>>>>

\* Vector3.Lerp(a, b, n / S), times S
LerpTimes(a, b, n, S) ==
    <<a[1] * (S - n) + b[1] * n,
      a[2] * (S - n) + b[2] * n,
      a[3] * (S - n) + b[3] * n>>

\* InpaintingManager.BilinearInterpolation at u = x / S, v = y / S, times
\* S * S (the vertex is sphereCenter + point.normalized * radius, which has
\* the direction of this vector)
BilinearInterpolation(c, x, y, S) ==
    LerpTimes(LerpTimes(c[1], c[2], x, S), LerpTimes(c[4], c[3], x, S), y, S)

\* UpdateHighlightMesh, first loop: the array of totalVertices slots, slot
\* y * (S + 1) + x written for x, y in 0..S (slot k is element k + 1 here).
GridVertices(faceName, S) ==
    LET totalVertices == (S + 1) * (S + 1)
        corners == GetFaceCorners(faceName)
    IN  [k \in 1..totalVertices |->
            BilinearInterpolation(corners, (k - 1) % (S + 1),
                                  (k - 1) \div (S + 1), S)]

\* the six indices the second loop writes for the cell (x, y)
CellTriangles(x, y, S) ==
    LET bottomLeft == y * (S + 1) + x
        bottomRight == bottomLeft + 1
        topLeft == bottomLeft + (S + 1)
        topRight == topLeft + 1
    IN  <<bottomLeft, topLeft, bottomRight, bottomRight, topLeft, topRight>>

\* the cells of rows 0..rows-1, each row of cols cells, in loop order
RECURSIVE CellsInOrder(_, _, _)
CellsInOrder(rows, cols, S) ==
    IF rows = 0
    THEN <<>>
    ELSE CellsInOrder(rows - 1, cols, S)
         \o [k \in 1..(6 * cols) |->
                CellTriangles((k - 1) \div 6, rows - 1, S)[((k - 1) % 6) + 1]]

\* A second loop whose bounds are <= instead of <.
GridTriangles_Inclusive(S) == CellsInOrder(S + 1, S + 1, S)

\* UpdateHighlightMesh, second loop: for y < S, for x < S, two triangles.
GridTriangles(S) == CellsInOrder(S, S, S)

MeshFrame ==
    UNCHANGED <<managerVars, classifyVars, ingestVars, sessionVars, request>>

\* UpdateHighlightMesh fills the vertex array.
GenerateVertices ==
    /\ meshGen.pc = "start"
    /\ meshGen' = [meshGen EXCEPT
                     !.pc = "vertices",
                     !.vertices = GridVertices(meshGen.faceName, meshGen.S)]
    /\ MeshFrame

\* UpdateHighlightMesh fills the index array.
GenerateTriangles ==
    /\ meshGen.pc = "vertices"
    /\ meshGen' = [meshGen EXCEPT !.pc = "triangles",
                                  !.triangles = GridTriangles(meshGen.S)]
    /\ MeshFrame

\* mesh.vertices = vertices; mesh.triangles = triangles; the MeshFilter
\* gets the mesh.
AssignMesh ==
    /\ meshGen.pc = "triangles"
    /\ meshGen' = [meshGen EXCEPT !.pc = "assigned"]
    /\ MeshFrame

\* the subdivision factors tried: the small ones and the program's
Subdivisions == (1..MaxSubdiv) \cup {SubdivisionsPerSide}

InitMesh ==
    /\ ManagerInit
    /\ ClassifyIdle
    /\ IngestIdle
    /\ SessionIdle
    /\ request = NoRequest
    /\ meshGen \in [faceName : Faces \cup {""}, S : Subdivisions,
                    pc : {"start"}, vertices : {<<>>}, triangles : {<<>>}]

NextMesh == GenerateVertices \/ GenerateTriangles \/ AssignMesh

SpecMesh == InitMesh /\ [][NextMesh]_vars

\* C13: a finished mesh has (S+1)^2 vertices and 2*S^2 triangles (441 and
\* 800 for S = 20), and every triangle index is the index of a vertex.
C13_MeshCounts ==
    meshGen.pc = "assigned" =>
        /\ Len(meshGen.vertices) = (meshGen.S + 1) * (meshGen.S + 1)
        /\ Len(meshGen.triangles) = 3 * (2 * meshGen.S * meshGen.S)
        /\ meshGen.S = 20 => /\ Len(meshGen.vertices) = 441
                             /\ Len(meshGen.triangles) = 3 * 800
        /\ \A k \in 1..Len(meshGen.triangles) :
             meshGen.triangles[k] \in 0..(Len(meshGen.vertices) - 1)

\* The S = 20 mesh of face -X has been assigned.
C13_Witness ==
    /\ meshGen.pc = "assigned"
    /\ meshGen.S = 20
    /\ meshGen.faceName = "NegativeX"
    /\ Len(meshGen.vertices) = 441
    /\ Len(meshGen.triangles) = 2400


(***************************************************************************)
(* Selection workflow: claims C14, C17..C20                                *)
(***************************************************************************)

\* C14: the highlight object is created at most once, by the first
\* regeneration and not at startup, and every later regeneration keeps that
\* object and only replaces its mesh.
C14_HighlightCreatedOnce ==
    /\ [](/\ createCount <= 1
          /\ highlightFace.exists <=> createCount = 1
          /\ regenCount = 0 => createCount = 0
          /\ regenCount >= 1 => createCount = 1)
    /\ [][(regenCount' # regenCount /\ highlightFace.exists) =>
             (/\ createCount' = createCount
              /\ highlightFace'.exists
              /\ highlightFace'.mesh \in Faces)]_vars

\* The mesh has been rebuilt twice on the one object.
C14_Witness ==
    /\ regenCount = 2
    /\ createCount = 1
    /\ highlightFace.exists


\* C15: after the push channel drops the client makes at most 5 consecutive
\* reconnection attempts; once 5 have failed the channel stays down, no
\* further attempt is made and no push event is ingested again in the
\* session.
C15_BoundedReconnection ==
    /\ [](/\ attempts <= 5
          /\ socketState = "failed" => attempts = 5)
    /\ [][socketState = "failed" =>
             (/\ socketState' = "failed"
              /\ attempts' = attempts
              /\ publishCount' = publishCount
              /\ appEvent'.op \notin {"connect", "connect_error",
                                      "unity_image_received"})]_vars

\* The channel has been given up after an image had been pushed on it, and
\* the page goes on without it.
C15_Witness ==
    /\ socketState = "failed"
    /\ attempts = 5
    /\ publishCount >= 1
    /\ appEvent.op \in {"FetchSettles", "HomeEffect"}


\* C16: a bootstrap fetch (cached image or default input image) that gets a
\* non-2xx response, a network error or a body that is no image leaves the
\* input-image state and the shared file unchanged, schedules no Home effect
\* and lets no error leave its promise chain; the shared file is never set
\* from the fetch while the input-image state is empty.
C16_FailedFetchChangesNothing ==
    /\ [][(appEvent'.op = "FetchSettles" /\ appEvent'.bad) =>
             (/\ inputImage' = inputImage
              /\ file' = file
              /\ effectPending' = effectPending
              /\ ~appEvent'.threw)]_vars
    /\ [](~inputImage.exists =>
             (/\ ~effectPending
              /\ file.exists => file.name = "unity-image.png"))

\* The cached-image fetch has failed with a network error, which the catch
\* logged, and the page has no image.
C16_Witness ==
    /\ appEvent.op = "FetchSettles"
    /\ appEvent.bad
    /\ appEvent.logged
    /\ imageParam # ""
    /\ ~inputImage.exists
    /\ ~file.exists


\* C17: every Processing episode ends: if each POST eventually completes,
\* fails or times out, isProcessing is eventually false again after each
\* accepted confirmation, whatever clicks, cancels and confirmations arrive
\* in the meantime; while it is true exactly one workflow is running.
C17_ProcessingEnds ==
    /\ [](isProcessing <=> Len(coroutines) = 1)
    /\ [](Len(coroutines) <= 1)
    /\ isProcessing ~> ~isProcessing

\* The second episode has ended after a failed request.
C17_Witness ==
    /\ lastEvent.op = "InpaintWorkflowDone"
    /\ lastEvent.outcome # "Success"
    /\ acceptCount = 2
    /\ ~isProcessing
    /\ coroutines = <<>>


\* C18: for each accepted confirmation the manager enters Processing and
\* issues the POST, the POST completes, the external interface is opened and
\* Processing is left, in that order; the interface is opened exactly once
\* per confirmation and never before the POST has completed.
C18_OpenAfterPost ==
    /\ [](/\ postCount = acceptCount
          /\ acceptCount = openCount + Len(coroutines))
    /\ [][acceptCount' # acceptCount =>
             (/\ ~isProcessing /\ isProcessing'
              /\ acceptCount' = acceptCount + 1
              /\ postCount' = postCount + 1
              /\ openCount' = openCount
              /\ coroutines = <<>>
              /\ Len(coroutines') = 1
              /\ coroutines'[1].pc = "SendWebRequest")]_vars
    /\ [][(coroutines # <<>> /\ coroutines' # <<>>
             /\ coroutines'[1].pc # coroutines[1].pc) =>
             (/\ coroutines[1].pc = "SendWebRequest"
              /\ coroutines'[1].pc = "OpenURL"
              /\ coroutines'[1].outcome \in Outcomes
              /\ isProcessing /\ isProcessing'
              /\ openCount' = openCount)]_vars
    /\ [][openCount' # openCount =>
             (/\ openCount' = openCount + 1
              /\ Len(coroutines) = 1
              /\ coroutines[1].pc = "OpenURL"
              /\ coroutines[1].outcome \in Outcomes
              /\ coroutines' = <<>>
              /\ isProcessing /\ ~isProcessing'
              /\ postCount' = postCount)]_vars
    /\ [][(isProcessing /\ ~isProcessing') =>
             openCount' = openCount + 1]_vars

\* Two confirmations have run to their end, each with one POST and one
\* opening of the interface.
C18_Witness ==
    /\ acceptCount = 2
    /\ postCount = 2
    /\ openCount = 2
    /\ ~isProcessing
    /\ lastEvent.op = "InpaintWorkflowDone"


\* C19: the face and panorama id of a dispatch are those classified and
\* resolved on the confirming tick: in every reachable state, a tick with a
\* right click that is accepted starts a workflow for the face of that tick's
\* cursor direction and that tick's panorama id, which is also the
\* remembered highlighted face (until an Escape of the same tick clears it)
\* and the selected face and panorama id; and nothing changes the face or
\* panorama id of a workflow, or the selected ones, while it is in flight.
C19_ReferenceCaptured ==
    /\ [](\A in \in TickInputs :
             LET s == UpdateStep(Mgr, in)
             IN  s.acceptCount # acceptCount =>
                   /\ in.mouse
                   /\ Len(s.coroutines) = 1
                   /\ s.coroutines[1].faceName
                        = GetFaceNameFromDirection(in.dir)
                   /\ s.coroutines[1].panoId = in.env.pano
                   /\ s.selectedFaceName = s.coroutines[1].faceName
                   /\ s.selectedPanoId = s.coroutines[1].panoId
                   /\ ~in.esc =>
                        s.currentHighlightedFace = s.coroutines[1].faceName)
    /\ [](coroutines # <<>> =>
             /\ coroutines[1].faceName = selectedFaceName
             /\ coroutines[1].panoId = selectedPanoId
             /\ selectedFaceName \in Faces)
    /\ [][(coroutines # <<>> /\ coroutines' # <<>>) =>
             (/\ coroutines'[1].faceName = coroutines[1].faceName
              /\ coroutines'[1].panoId = coroutines[1].panoId
              /\ selectedFaceName' = selectedFaceName
              /\ selectedPanoId' = selectedPanoId)]_vars
    /\ [][(acceptCount' # acceptCount /\ ~lastEvent'.esc) =>
             currentHighlightedFace' = coroutines'[1].faceName]_vars

\* A second dispatch is in flight for another face than the first, and a
\* tick has passed since it was confirmed.
C19_Witness ==
    /\ acceptCount = 2
    /\ coroutines # <<>>
    /\ coroutines[1].faceName = "PositiveX"
    /\ coroutines[1].panoId = "P1"
    /\ lastEvent.op = "Update"
    /\ ~lastEvent.polled

\* C20 (as stated): whenever the manager is not selecting, the remembered
\* highlighted face is empty, so a button click that enters selection finds
\* it empty; and the first tick handled in Selecting (the one that finds it
\* empty) always regenerates the highlight.
C20_FirstTickRegenerates ==
    /\ [](~isSelectionMode => currentHighlightedFace = "")
    /\ [][(lastEvent'.op = "OnInpaintButtonClicked" /\ isSelectionMode') =>
             currentHighlightedFace' = ""]_vars
    /\ [][(lastEvent'.op = "Update" /\ lastEvent'.polled
             /\ currentHighlightedFace = "") =>
             regenCount' = regenCount + 1]_vars


(***************************************************************************)
(* Selection workflow: claims C21, C22, C24, C26                           *)
(***************************************************************************)

\* C21: whenever selection mode is inactive the highlight is hidden and the
\* remembered highlighted face is empty; a step that leaves selection mode
\* hides the highlight and clears the remembered face in that same step.
C21_HiddenWhenInactive ==
    /\ [](~isSelectionMode =>
             (/\ ~highlightFace.active
              /\ currentHighlightedFace = ""))
    /\ [][(isSelectionMode /\ ~isSelectionMode') =>
             (/\ ~highlightFace'.active
              /\ currentHighlightedFace' = "")]_vars

\* Escape has cancelled a selection whose highlight had been shown.
C21_Witness ==
    /\ ~isSelectionMode
    /\ lastEvent.op = "Update"
    /\ lastEvent.esc
    /\ highlightFace.exists
    /\ highlightFace.mesh \in Faces
    /\ ~highlightFace.active


\* C22: a tick while selection mode is off or a dispatch is in flight polls
\* nothing: whatever the cursor, the right button, Escape and the scene are,
\* Update leaves every field of the manager as it was, and such a tick
\* changes neither the remembered face, the highlight, the selected
\* reference nor the workflow.
C22_NoPollingOutsideSelecting ==
    /\ [](\A in \in TickInputs :
             (~isSelectionMode \/ isProcessing) => UpdateStep(Mgr, in) = Mgr)
    /\ [][(lastEvent'.op = "Update" /\ (~isSelectionMode \/ isProcessing)) =>
             (/\ ~lastEvent'.polled
              /\ UNCHANGED <<isSelectionMode, isProcessing, highlightFace,
                             currentHighlightedFace, selectedFaceName,
                             selectedPanoId, coroutines, regenCount,
                             faceChanges, createCount, postCount, acceptCount,
                             openCount>>)]_vars

\* A tick with a right click and Escape has passed during a dispatch, and
\* the dispatch, the selection mode and the highlight are still there.
C22_Witness ==
    /\ lastEvent.op = "Update"
    /\ ~lastEvent.polled
    /\ lastEvent.mouse
    /\ lastEvent.esc
    /\ isProcessing
    /\ isSelectionMode
    /\ highlightFace.active
    /\ acceptCount = 1


\* C24 (as stated): whenever the highlight is visible, the face whose mesh
\* it shows is the remembered highlighted face, also after ticks on which no
\* active sphere or no cubemap was found.
C24_MeshIsRememberedFace ==
    highlightFace.active => highlightFace.mesh = currentHighlightedFace

\* C25: the classifier is total: every vector, the zero vector and every tie
\* included, is given exactly one of the six faces, and the zero vector is
\* given NegativeZ.
C25_ClassifierTotal ==
    /\ \A d \in Vectors : GetFaceNameFromDirection(d) \in Faces
    /\ GetFaceNameFromDirection(<<0, 0, 0>>) = "NegativeZ"
    /\ face # "" =>
          /\ face \in Faces
          /\ face = GetFaceNameFromDirection(direction)
          /\ direction = <<0, 0, 0>> => face = "NegativeZ"

\* The zero vector has been classified.
C25_Witness ==
    /\ direction = <<0, 0, 0>>
    /\ face = "NegativeZ"
    /\ scaledFace = "NegativeZ"

\* C26: in every reachable Selecting state a tick with a right click starts
\* a dispatch, also when no panorama can be resolved on that tick: the
\* reference then holds the placeholder id PanoID_Unknown, one POST is sent,
\* and its URL is built from the placeholder.
C26_DispatchWithoutPanorama ==
    \A in \in TickInputs :
        (isSelectionMode /\ ~isProcessing /\ in.mouse) =>
            LET s == UpdateStep(Mgr, in)
                faceName == GetFaceNameFromDirection(in.dir)
            IN  /\ s.acceptCount = acceptCount + 1
                /\ s.postCount = postCount + 1
                /\ s.isProcessing
                /\ Len(s.coroutines) = 1
                /\ s.coroutines[1].pc = "SendWebRequest"
                /\ in.env.pano = PanoIdUnknown =>
                      /\ s.selectedPanoId = "PanoID_Unknown"
                      /\ s.coroutines[1].panoId = "PanoID_Unknown"
                      /\ ImageUrl(GetCubemapsFolderUrl(""),
                                  s.coroutines[1].panoId,
                                  s.coroutines[1].faceName)
                           = "http://localhost:8000/images/cubemaps"
                               \o "/PanoID_Unknown/PanoID_Unknown_"
                               \o FaceCode(faceName) \o ".png"

\* A dispatch is in flight for the placeholder id, confirmed on the first
\* tick of a scene without a sphere.
C26_Witness ==
    /\ isProcessing
    /\ coroutines # <<>>
    /\ coroutines[1].panoId = "PanoID_Unknown"
    /\ coroutines[1].pc = "SendWebRequest"
    /\ selectedPanoId = "PanoID_Unknown"
    /\ postCount = 1
    /\ ~highlightFace.exists
    /\ lastEvent.op = "Update"
    /\ lastEvent.mouse

(***************************************************************************)
(* Web application: mounting and unmounting Home (claim C23)               *)
(***************************************************************************)

\* mounts of Home in one page load
MaxMounts == 2

\* What the socket effect owns: its socket and the subscription.
Channel == [sock |-> Sock, sub |-> subscription]

\* A cleanup that removes nothing and leaves the socket connected.
HomeSocketCleanup_NoTeardown(c) == [c EXCEPT !.sub.mounted = FALSE]

\* The socket effect's cleanup: socket.off("unity_image_received") removes
\* the listener and socket.disconnect() closes the socket for good.
HomeSocketCleanup(c) ==
    [sock |-> [state |-> "closed", attempts |-> 0],
     sub |-> [c.sub EXCEPT !.mounted = FALSE, !.listeners = 0]]

\* React unmounts Home: the effects' cleanups run and the component's state
\* (useInputImage's inputImage) is dropped; the store keeps file.
HomeUnmounts ==
    /\ subscription.mounted
    /\ LET c == HomeSocketCleanup(Channel)
       IN  /\ socketState' = c.sock.state
           /\ attempts' = c.sock.attempts
           /\ subscription' = c.sub
    /\ inputImage' = NoFile
    /\ fetchState' = "idle"
    /\ effectPending' = FALSE
    /\ appEvent' = AppEvent("unmount")
    /\ UNCHANGED <<imageParam, ingestVars, managerVars, classifyVars,
                   request, meshGen>>

\* React mounts Home again: useInputImage starts its fetch and the socket
\* effect creates a new socket with its listener.
HomeMounts ==
    /\ ~subscription.mounted
    /\ subscription.mounts < MaxMounts
    /\ subscription' = HomeSocketEffect(subscription)
    /\ socketState' = "opening"
    /\ attempts' = 0
    /\ inputImage' = NoFile
    /\ fetchState' = "pending"
    /\ effectPending' = FALSE
    /\ appEvent' = AppEvent("mount")
    /\ UNCHANGED <<imageParam, ingestVars, managerVars, classifyVars,
                   request, meshGen>>

NextLifecycle ==
    \/ NextSession
    \/ HomeUnmounts
    \/ HomeMounts

SpecLifecycle == InitSession /\ [][NextLifecycle]_vars

\* C23: while Home is mounted there is a socket with exactly one
\* unity_image_received listener, from the mount on; after the cleanup there
\* is no listener and the socket is closed, and no push event is handled or
\* changes the shared file until Home is mounted again.
C23_SubscriptionLifetime ==
    /\ [](subscription.mounted =>
             (/\ subscription.listeners = 1
              /\ socketState \in {"opening", "open", "reconnecting",
                                  "failed"}))
    /\ [](~subscription.mounted =>
             (/\ subscription.listeners = 0
              /\ socketState = "closed"))
    /\ [][appEvent'.op = "unity_image_received" =>
             (subscription.mounted /\ socketState = "open")]_vars
    /\ [][(~subscription.mounted /\ ~subscription'.mounted) =>
             UNCHANGED <<file, publishCount, lastPush>>]_vars

\* Home was unmounted after a pushed image had been published.
C23_Witness ==
    /\ ~subscription.mounted
    /\ appEvent.op = "unmount"
    /\ socketState = "closed"
    /\ publishCount >= 1
    /\ file.exists
    /\ file.name = "unity-image.png"

====
